---- MODULE Spec2Model ----
(***************************************************************************)
(* Booking status workflow and venue availability of the DRDO dashboard    *)
(* server: the express routes of server/routes.ts running on the           *)
(* PersistentStorage of server/persistent-storage.ts.                      *)
(*                                                                         *)
(* Every route handler is an async function.  A handler is modelled as the *)
(* sequence of its segments between awaits: one action per segment that    *)
(* reads or writes the store.  A continuation that touches nothing but the *)
(* handler's locals is folded into the segment that follows it.            *)
(***************************************************************************)
EXTENDS Integers, Sequences, FiniteSets, TLC

\* ------------------------------------------------------------------ bounds
MaxBookings == 2
MaxHistory == 4
MaxLongHistory == 5
MaxReopenHistory == 6
MaxFeedback == 1

\* --------------------------------------------------------------- constants
\* Absent value of an optional field or argument (null / undefined).
Null == "null"
\* new Date() at the moment of a stamp.
Now == "now"
\* excludeBookingId not supplied (falsy).
NoExclude == 0

\* The default users of the store, by id.
Users == {"1", "2", "3", "4"}

Role(u) ==
    CASE u = "1" -> "group_director"
      [] u = "2" -> "user"
      [] u = "3" -> "secretary"
      [] u = "4" -> "it_team"

\* The default venues of the store, by id.
Venues == {"1", "2", "3"}

\* BookingStatus
BookingStatus ==
    {"submitted", "gd_approved", "gd_rejected", "secretary_approved",
     "secretary_rejected", "it_setup_complete", "completed", "cancelled"}

\* ------------------------------------------------------------ input values
\* A status string outside BookingStatus, as a request body may carry.
OtherStatus == "archived"
StatusInputs == BookingStatus \cup {OtherStatus}

\* remarks of a status request: absent, or a text.
RemarksInputs == {Null, "ok"}

\* remarks of the status requests of the sequential specification.
SeqRemarks == {"ok"}

\* Users that create bookings.
Creators == {"2"}

\* Time-of-day strings "HH:MM", as the sequence of their leading digits.
T10 == <<1, 0>>
T11 == <<1, 1>>
T12 == <<1, 2>>
T13 == <<1, 3>>
TimeInputs == {T10, T11, T12, T13}

\* Event dates: an instant, as calendar day and time within the day.
D1 == [day |-> 1, tod |-> 0]
D1pm == [day |-> 1, tod |-> 1]
D2 == [day |-> 2, tod |-> 0]
DateInputs == {D1, D1pm, D2}

\* new Date() when a feedback request is served: the day before the events
\* of the requests, or the day after them.
ClockInputs == {[day |-> 0, tod |-> 0], [day |-> 3, tod |-> 0]}

\* overallRating of a feedback body: absent, or a number.
RatingInputs == {Null, "5"}

\* venueId values of requests: two venues of the store and an unknown id.
VenueInputs == {"1", "2", "9"}

\* The venue, date and time range a create or edit request carries.
SlotInputs ==
    { [venueId |-> "1", eventDate |-> D1,   startTime |-> T10, endTime |-> T12],
      [venueId |-> "1", eventDate |-> D1pm, startTime |-> T11, endTime |-> T13],
      [venueId |-> "1", eventDate |-> D1,   startTime |-> T12, endTime |-> T13],
      [venueId |-> "9", eventDate |-> D2,   startTime |-> T10, endTime |-> T12] }

\* Booking ids a request may name: generateId() results, numbered in the
\* order of creation; an id not handed out yet is an unknown id.
IdInputs == 1..MaxBookings

\* Request slots: the handlers that can be in flight at once.
Slots == {1, 2}

VARIABLES
    bookings,        \* PersistentStorage.bookings
    bookingHistory,  \* PersistentStorage.bookingHistory
    events,          \* messages handed to the WebSocket clients
    req,             \* per slot: position and locals of the handler, and
                     \* its response until the client has received it
    onDisk,          \* per data file: it holds the array as it is in memory
    feedback         \* PersistentStorage.feedback

vars == <<bookings, bookingHistory, events, req, onDisk, feedback>>

store == <<bookings, bookingHistory, events>>

\* ----------------------------------------------------------------- helpers
\* JavaScript string comparison a < b on the digit sequences.
RECURSIVE StrLess(_, _)
StrLess(a, b) ==
    IF b = <<>> THEN FALSE
    ELSE IF a = <<>> THEN TRUE
    ELSE IF Head(a) < Head(b) THEN TRUE
    ELSE IF Head(a) > Head(b) THEN FALSE
    ELSE StrLess(Tail(a), Tail(b))

StrLeq(a, b) == a = b \/ StrLess(a, b)

\* Date.prototype.toDateString(): the calendar day, time of day dropped.
toDateString(d) == d.day

\* Array.prototype.findIndex on bookings by id; 0 when absent.
findIndex(bs, id) ==
    IF \E i \in 1..Len(bs) : bs[i].id = id
    THEN CHOOSE i \in 1..Len(bs) :
            /\ bs[i].id = id
            /\ \A j \in 1..(i - 1) : bs[j].id # id
    ELSE 0

\* generateId(): a fresh id.
generateId(bs) == Len(bs) + 1

\* Locals of a handler before they are assigned.
NoData ==
    [userId |-> Null, venueId |-> Null, eventDate |-> D1, startTime |-> <<>>,
     endTime |-> <<>>]
NotFound == [found |-> FALSE, userId |-> Null, status |-> Null]

\* body: req.body of a create or edit request, data: the parsed bookingData;
\* rows: the number of history rows of the booking when the request
\* arrived (an observation, not read by any handler).
IdleReq ==
    [pc |-> "idle", kind |-> Null, actor |-> Null, id |-> 0,
     body |-> NoData, data |-> NoData, status |-> Null, remarks |-> Null,
     existing |-> NotFound, available |-> FALSE, code |-> Null, rows |-> 0]

\* A parse that lets a userId of the body stand.
insertBookingSchema_parseKeepsUser(body, userId) ==
    [userId |-> IF body.userId # Null THEN body.userId ELSE userId,
     venueId |-> body.venueId, eventDate |-> body.eventDate,
     startTime |-> body.startTime, endTime |-> body.endTime]

\* insertBookingSchema.parse({...req.body, userId: req.user!.id, ...}): the
\* caller's id replaces a userId of the body, and the keys the schema omits
\* (id, status, the stage fields, createdAt, updatedAt) are stripped.
insertBookingSchema_parse(body, userId) ==
    [userId |-> userId, venueId |-> body.venueId, eventDate |-> body.eventDate,
     startTime |-> body.startTime, endTime |-> body.endTime]

\* The lowest request slot with no handler in flight.
FirstIdle(s) ==
    /\ req[s].pc = "idle"
    /\ \A t \in Slots : t < s => req[t].pc # "idle"

\* The rows of the history that belong to one booking, in stored order.
RECURSIVE RowsOf(_, _)
RowsOf(h, bookingId) ==
    IF h = <<>> THEN <<>>
    ELSE IF Head(h).bookingId = bookingId
         THEN <<Head(h)>> \o RowsOf(Tail(h), bookingId)
         ELSE RowsOf(Tail(h), bookingId)

\* ----------------------------------------------------------------- storage
\* The rows of the history with their createdAt: a row gets the time of its
\* insert, so the times grow with the position.
WithCreatedAt(h) ==
    [i \in 1..Len(h) |->
        [bookingId |-> h[i].bookingId, status |-> h[i].status,
         remarks |-> h[i].remarks, changedBy |-> h[i].changedBy,
         createdAt |-> i]]

\* A row put into a sequence sorted by createdAt, ascending or descending,
\* behind the rows it does not have to precede.
RECURSIVE InsertSorted(_, _, _)
InsertSorted(row, sorted, ascending) ==
    IF sorted = <<>> THEN <<row>>
    ELSE IF (ascending /\ row.createdAt < Head(sorted).createdAt)
            \/ (~ascending /\ row.createdAt > Head(sorted).createdAt)
         THEN <<row>> \o sorted
         ELSE <<Head(sorted)>> \o InsertSorted(row, Tail(sorted), ascending)

\* Array.prototype.sort / ORDER BY on createdAt.
RECURSIVE SortByCreatedAt(_, _)
SortByCreatedAt(rows, ascending) ==
    IF rows = <<>> THEN <<>>
    ELSE InsertSorted(rows[Len(rows)],
                      SortByCreatedAt(SubSeq(rows, 1, Len(rows) - 1), ascending),
                      ascending)

\* PersistentStorage.getBookingHistory
getBookingHistory(h, bookingId) ==
    SortByCreatedAt(RowsOf(WithCreatedAt(h), bookingId), TRUE)

\* DatabaseStorage.getBookingHistory
DatabaseStorage_getBookingHistory(h, bookingId) ==
    SortByCreatedAt(RowsOf(WithCreatedAt(h), bookingId), FALSE)

\* The conflict scan with the excluded booking left in.
checkVenueAvailabilityAll(bs, venueId, date, startTime, endTime, excludeBookingId) ==
    LET conflicting(b) ==
            /\ b.venueId = venueId
            /\ ~(b.status = "cancelled" \/ b.status = "gd_rejected"
                    \/ b.status = "secretary_rejected")
            /\ toDateString(b.eventDate) = toDateString(date)
            /\ ~(StrLeq(endTime, b.startTime) \/ StrLeq(b.endTime, startTime))
    IN  ~\E i \in 1..Len(bs) : conflicting(bs[i])

\* DatabaseStorage.checkVenueAvailability: the rows of the venue with the
\* very eventDate, an active status and a time range that meets one of the
\* three closed-interval conditions, without the excluded booking.
DatabaseStorage_checkVenueAvailability(bs, venueId, date, startTime, endTime, excludeBookingId) ==
    LET conflicting(b) ==
            /\ b.venueId = venueId
            /\ b.eventDate = date
            /\ ~(excludeBookingId # NoExclude /\ b.id = excludeBookingId)
            /\ \/ StrLeq(b.startTime, startTime) /\ StrLeq(startTime, b.endTime)
               \/ StrLeq(b.startTime, endTime) /\ StrLeq(endTime, b.endTime)
               \/ StrLeq(startTime, b.startTime) /\ StrLeq(b.endTime, endTime)
            /\ b.status \in {"submitted", "gd_approved", "secretary_approved",
                              "it_setup_complete", "completed"}
    IN  ~\E i \in 1..Len(bs) : conflicting(bs[i])

\* PersistentStorage.checkVenueAvailability
checkVenueAvailability(bs, venueId, date, startTime, endTime, excludeBookingId) ==
    LET conflicting(b) ==
            /\ ~(excludeBookingId # NoExclude /\ b.id = excludeBookingId)
            /\ b.venueId = venueId
            /\ ~(b.status = "cancelled" \/ b.status = "gd_rejected"
                    \/ b.status = "secretary_rejected")
            /\ toDateString(b.eventDate) = toDateString(date)
            /\ ~(StrLeq(endTime, b.startTime) \/ StrLeq(b.endTime, startTime))
    IN  ~\E i \in 1..Len(bs) : conflicting(bs[i])

\* PersistentStorage.getProcessedBookingsByRole: the ids of the bookings it
\* returns, those whose status is in the list of the role and whose venue
\* resolves.
getProcessedBookingsByRole(bs, role) ==
    LET statuses ==
            CASE role = "group_director" ->
                    {"gd_approved", "gd_rejected", "secretary_approved",
                     "secretary_rejected", "it_setup_complete", "completed",
                     "cancelled"}
              [] role = "secretary" ->
                    {"secretary_approved", "secretary_rejected",
                     "it_setup_complete", "completed", "cancelled"}
              [] role = "it_team" ->
                    {"it_setup_complete", "completed", "cancelled"}
              [] OTHER -> {}
    IN  { bs[i].id : i \in { j \in 1..Len(bs) : /\ bs[j].status \in statuses
                                                 /\ bs[j].venueId \in Venues } }

\* An insert that writes over the last row.
addBookingHistoryOverLast(h, bookingId, status, remarks, changedBy) ==
    LET row == [bookingId |-> bookingId, status |-> status,
                remarks |-> remarks, changedBy |-> changedBy]
    IN  IF h = <<>> THEN <<row>> ELSE [h EXCEPT ![Len(h)] = row]

\* PersistentStorage.addBookingHistory
addBookingHistory(h, bookingId, status, remarks, changedBy) ==
    Append(h, [bookingId |-> bookingId, status |-> status,
               remarks |-> remarks, changedBy |-> changedBy])

\* PersistentStorage.getBooking: the booking joined with its user and
\* venue; not found when the venue does not resolve.
getBooking(bs, id) ==
    LET i == findIndex(bs, id)
    IN  IF i = 0 \/ bs[i].venueId \notin Venues
        THEN NotFound
        ELSE [found |-> TRUE, userId |-> bs[i].userId, status |-> bs[i].status]

\* The booking object createBooking builds.
NewBooking(id, userId, data) ==
    [id |-> id, userId |-> userId,
     venueId |-> data.venueId, eventDate |-> data.eventDate,
     startTime |-> data.startTime, endTime |-> data.endTime,
     status |-> "submitted",
     gdApprovalDate |-> Null, gdRemarks |-> Null,
     secretaryApprovalDate |-> Null, secretaryRemarks |-> Null,
     itSetupDate |-> Null, itRemarks |-> Null]

\* PersistentStorage.updateBooking: the fields of the request overwrite
\* those of the stored booking.
updateBooking(bs, id, userId, data) ==
    LET i == findIndex(bs, id)
    IN  [bs EXCEPT ![i] = [@ EXCEPT !.userId = userId,
                                    !.venueId = data.venueId,
                                    !.eventDate = data.eventDate,
                                    !.startTime = data.startTime,
                                    !.endTime = data.endTime]]

\* The updates object with the director's fields stamped for every target.
StatusUpdatesStampsDirector(b, status, remarks) ==
    [b EXCEPT !.status = status, !.gdApprovalDate = Now, !.gdRemarks = remarks]

\* The updates object of updateBookingStatus applied to a booking.
StatusUpdates(b, status, remarks) ==
    LET b1 == [b EXCEPT !.status = status]
    IN  CASE status \in {"gd_approved", "gd_rejected"} ->
                [b1 EXCEPT !.gdApprovalDate = Now, !.gdRemarks = remarks]
          [] status \in {"secretary_approved", "secretary_rejected"} ->
                [b1 EXCEPT !.secretaryApprovalDate = Now,
                           !.secretaryRemarks = remarks]
          [] status = "it_setup_complete" ->
                [b1 EXCEPT !.itSetupDate = Now, !.itRemarks = remarks]
          [] OTHER -> b1

\* remarks || `Status updated to ${status}`
DefaultRemarks(status) ==
    CASE status = "submitted" -> "Status updated to submitted"
      [] status = "gd_approved" -> "Status updated to gd_approved"
      [] status = "gd_rejected" -> "Status updated to gd_rejected"
      [] status = "secretary_approved" -> "Status updated to secretary_approved"
      [] status = "secretary_rejected" -> "Status updated to secretary_rejected"
      [] status = "it_setup_complete" -> "Status updated to it_setup_complete"
      [] status = "completed" -> "Status updated to completed"
      [] status = "cancelled" -> "Status updated to cancelled"
      [] OTHER -> "Status updated to archived"

HistoryRemarks(status, remarks) ==
    IF remarks = Null THEN DefaultRemarks(status) ELSE remarks

\* An update that logs nothing when the booking already has the status.
updateBookingStatusOnce(bs, h, id, status, userId, remarks) ==
    LET i == findIndex(bs, id)
    IN  [bookings |-> [bs EXCEPT ![i] = StatusUpdates(@, status, remarks)],
         history |-> IF bs[i].status = status
                     THEN h
                     ELSE addBookingHistory(h, id, status,
                                HistoryRemarks(status, remarks), userId)]

\* An update that writes the status onto every stored booking.
updateBookingStatusAll(bs, h, id, status, userId, remarks) ==
    [bookings |-> [i \in 1..Len(bs) |-> StatusUpdates(bs[i], status, remarks)],
     history |-> addBookingHistory(h, id, status,
                                   HistoryRemarks(status, remarks), userId)]

\* PersistentStorage.updateBookingStatus on a stored booking: the new
\* bookings array and the new history.
updateBookingStatus(bs, h, id, status, userId, remarks) ==
    LET i == findIndex(bs, id)
    IN  [bookings |-> [bs EXCEPT ![i] = StatusUpdates(@, status, remarks)],
         history |-> addBookingHistory(h, id, status,
                                       HistoryRemarks(status, remarks), userId)]

\* A relay that sends nothing.
broadcastNothing(ev, bookingId, status) == ev

\* broadcastStatusUpdate
broadcastStatusUpdate(ev, bookingId, status) ==
    Append(ev, [bookingId |-> bookingId, status |-> status])

\* saveAllData at the end of a storage call: each file is rewritten from
\* memory.  saveData catches the error of a write that fails and logs it;
\* the file then keeps its content.  Written is the set of outcomes of
\* writeFileSync (TRUE: the file was written).
saveAllData(Written) ==
    \E wb \in Written, wh \in Written :
        onDisk' = [bookings |->
                        wb \/ (onDisk.bookings /\ bookings' = bookings),
                   bookingHistory |->
                        wh \/ (onDisk.bookingHistory
                                    /\ bookingHistory' = bookingHistory)]

\* ---------------------------------------------------------- bounding guard
\* The history has room for one more row.  A handler whose next segment
\* would write with no room left does not run that segment.
Room(E) == Len(bookingHistory) < E.rows

\* The environment of a run: the outcomes writeFileSync can have and the
\* number of history rows the run is followed up to.
Served == [written |-> {TRUE}, rows |-> MaxHistory]
Faulty == [written |-> BOOLEAN, rows |-> MaxHistory]
Long == [written |-> {TRUE}, rows |-> MaxLongHistory]
Reopening == [written |-> {TRUE}, rows |-> MaxReopenHistory]

\* res.status(...).json(...): the handler in slot s ends with a response.
\* Its locals are gone; the response is in flight to the client.
Responded(kind, code) ==
    [IdleReq EXCEPT !.pc = "responded", !.kind = kind, !.code = code]

Respond(s, code) ==
    req' = [req EXCEPT ![s] = Responded(req[s].kind, code)]

\* The client receives the response; the slot is free again.
Deliver(s) ==
    /\ req[s].pc = "responded"
    /\ req' = [req EXCEPT ![s] = IdleReq]
    /\ UNCHANGED <<store, onDisk, feedback>>

\* ------------------------------------------------- POST /api/bookings
\* The handler up to the await of checkVenueAvailability.
CreateStart(s, actor, body) ==
    /\ FirstIdle(s)
    /\ Len(bookings) < MaxBookings
    /\ LET bookingData == insertBookingSchema_parse(body, actor)
       IN  req' = [req EXCEPT ![s] =
                [IdleReq EXCEPT !.pc = "create_checked", !.kind = "create",
                                !.actor = actor, !.body = body,
                                !.data = bookingData, !.rows = 0,
                                !.available =
                                    checkVenueAvailability(bookings,
                                        bookingData.venueId,
                                        bookingData.eventDate,
                                        bookingData.startTime,
                                        bookingData.endTime, NoExclude)]]
    /\ UNCHANGED <<bookings, bookingHistory, events, onDisk, feedback>>

\* A createBooking that looks at the slot again before it inserts.
CreateInsertRechecks(s, E) ==
    /\ req[s].pc = "create_checked"
    /\ IF \/ ~req[s].available
          \/ ~checkVenueAvailability(bookings, req[s].data.venueId,
                    req[s].data.eventDate, req[s].data.startTime,
                    req[s].data.endTime, NoExclude)
       THEN /\ Respond(s, "Conflict")
            /\ UNCHANGED <<store, onDisk, feedback>>
       ELSE LET id == generateId(bookings)
                booking == NewBooking(id, req[s].data.userId, req[s].data)
            IN  /\ Len(bookings) < MaxBookings
                /\ Room(E)
                /\ bookings' = Append(bookings, booking)
                /\ bookingHistory' =
                        addBookingHistory(bookingHistory, id, "submitted",
                                          "Booking request submitted", booking.userId)
                /\ req' = [req EXCEPT ![s].pc = "create_created", ![s].id = id]
                /\ UNCHANGED <<events>>
                /\ saveAllData(E.written)
                /\ UNCHANGED feedback

\* Rejection of an unavailable slot, or createBooking up to its await.
CreateInsert(s, E) ==
    /\ req[s].pc = "create_checked"
    /\ IF ~req[s].available
       THEN /\ Respond(s, "Conflict")
            /\ UNCHANGED <<store, onDisk, feedback>>
       ELSE LET id == generateId(bookings)
                booking == NewBooking(id, req[s].data.userId, req[s].data)
            IN  /\ Len(bookings) < MaxBookings
                /\ Room(E)
                /\ bookings' = Append(bookings, booking)
                /\ bookingHistory' =
                        addBookingHistory(bookingHistory, id, "submitted",
                                          "Booking request submitted", booking.userId)
                /\ req' = [req EXCEPT ![s].pc = "create_created", ![s].id = id]
                /\ UNCHANGED <<events>>
                /\ saveAllData(E.written)
                /\ UNCHANGED feedback

\* The route's own addBookingHistory.
CreateHistory(s, E) ==
    /\ req[s].pc = "create_created"
    /\ Room(E)
    /\ bookingHistory' =
            addBookingHistory(bookingHistory, req[s].id, "submitted",
                              "Booking request submitted", req[s].actor)
    /\ req' = [req EXCEPT ![s].pc = "create_logged"]
    /\ UNCHANGED <<bookings, events>>
    /\ saveAllData(E.written)
    /\ UNCHANGED feedback

\* broadcastStatusUpdate and the response.
CreateBroadcast(s) ==
    /\ req[s].pc = "create_logged"
    /\ events' = broadcastStatusUpdate(events, req[s].id, "submitted")
    /\ Respond(s, "OK")
    /\ UNCHANGED <<bookings, bookingHistory, onDisk, feedback>>

\* ------------------------------------------------- PATCH /api/bookings/:id
\* The response of the edit route to a request it turns down at once, with
\* the caller and the booking id of the request it answers.
EditResponded(actor, id, code) ==
    [Responded("edit", code) EXCEPT !.actor = actor, !.id = id]

\* A booking with an approval of the director among the editable ones.
editableStatusesLax ==
    {"submitted", "gd_approved", "gd_rejected", "secretary_rejected"}

\* The statuses in which the owner may edit a booking.
editableStatuses == {"submitted", "gd_rejected", "secretary_rejected"}

\* The call of getBooking and the checks on the booking it returns.
EditStart(s, actor, id, body) ==
    /\ FirstIdle(s)
    /\ UNCHANGED <<store, onDisk, feedback>>
    /\ LET existingBooking == getBooking(bookings, id)
       IN  IF ~existingBooking.found
           THEN req' = [req EXCEPT ![s] = EditResponded(actor, id, "NotFound")]
           ELSE IF existingBooking.userId # actor
           THEN req' = [req EXCEPT ![s] = EditResponded(actor, id, "Forbidden")]
           ELSE IF existingBooking.status \notin editableStatuses
           THEN req' = [req EXCEPT ![s] = EditResponded(actor, id, "InvalidStage")]
           ELSE req' = [req EXCEPT ![s] =
                        [IdleReq EXCEPT !.pc = "edit_got", !.kind = "edit",
                                        !.actor = actor, !.id = id,
                                        !.body = body,
                                        !.data = insertBookingSchema_parse(body, actor),
                                        !.existing = existingBooking,
                                        !.rows = Len(RowsOf(bookingHistory, id))]]

\* updateBooking ahead of the availability check.
EditCheckWritesFirst(s) ==
    /\ req[s].pc = "edit_got"
    /\ bookings' = updateBooking(bookings, req[s].id, req[s].data.userId, req[s].data)
    /\ UNCHANGED <<bookingHistory, events>>
    /\ saveAllData({TRUE})
    /\ UNCHANGED feedback
    /\ req' = [req EXCEPT ![s].pc = "edit_checked",
                          ![s].available =
                              checkVenueAvailability(bookings,
                                  req[s].data.venueId, req[s].data.eventDate,
                                  req[s].data.startTime, req[s].data.endTime,
                                  req[s].id)]

\* The call of checkVenueAvailability, excluding the booking itself.
EditCheck(s) ==
    /\ req[s].pc = "edit_got"
    /\ UNCHANGED <<store, onDisk, feedback>>
    /\ req' = [req EXCEPT ![s].pc = "edit_checked",
                          ![s].available =
                              checkVenueAvailability(bookings,
                                  req[s].data.venueId, req[s].data.eventDate,
                                  req[s].data.startTime, req[s].data.endTime,
                                  req[s].id)]

\* Rejection of an unavailable slot, or updateBooking.
EditUpdate(s, E) ==
    /\ req[s].pc = "edit_checked"
    /\ IF ~req[s].available
       THEN /\ Respond(s, "Conflict")
            /\ UNCHANGED <<store, onDisk, feedback>>
       ELSE /\ Room(E)
            /\ bookings' = updateBooking(bookings, req[s].id, req[s].data.userId, req[s].data)
            /\ req' = [req EXCEPT ![s].pc = "edit_updated"]
            /\ UNCHANGED <<bookingHistory, events>>
            /\ saveAllData(E.written)
            /\ UNCHANGED feedback

\* The route's addBookingHistory.
EditHistory(s, E) ==
    /\ req[s].pc = "edit_updated"
    /\ Room(E)
    /\ bookingHistory' =
            addBookingHistory(bookingHistory, req[s].id, "submitted",
                              "Booking updated and resubmitted for approval",
                              req[s].actor)
    /\ req' = [req EXCEPT ![s].pc = "edit_logged"]
    /\ UNCHANGED <<bookings, events>>
    /\ saveAllData(E.written)
    /\ UNCHANGED feedback

\* updateBookingStatus(bookingId, 'submitted', ...) up to its await.
EditStatus(s, E) ==
    /\ req[s].pc = "edit_logged"
    /\ Room(E)
    /\ LET r == updateBookingStatus(bookings, bookingHistory, req[s].id,
                                    "submitted", req[s].actor, "Booking updated")
       IN  /\ bookings' = r.bookings
           /\ bookingHistory' = r.history
    /\ req' = [req EXCEPT ![s].pc = "edit_reset"]
    /\ UNCHANGED <<events>>
    /\ saveAllData(E.written)
    /\ UNCHANGED feedback

\* broadcastStatusUpdate and the response.
EditBroadcast(s) ==
    /\ req[s].pc = "edit_reset"
    /\ events' = broadcastStatusUpdate(events, req[s].id, "submitted")
    /\ Respond(s, "OK")
    /\ UNCHANGED <<bookings, bookingHistory, onDisk, feedback>>

\* ------------------------------------------ PATCH /api/bookings/:id/cancel
\* The call of getBooking and the checks on the booking it returns.
CancelStart(s, actor, id) ==
    /\ FirstIdle(s)
    /\ UNCHANGED <<store, onDisk, feedback>>
    /\ LET existingBooking == getBooking(bookings, id)
       IN  IF ~existingBooking.found
           THEN req' = [req EXCEPT ![s] = Responded("cancel", "NotFound")]
           ELSE IF existingBooking.userId # actor
           THEN req' = [req EXCEPT ![s] = Responded("cancel", "Forbidden")]
           ELSE IF existingBooking.status \notin
                        {"submitted", "gd_approved", "secretary_approved",
                         "gd_rejected", "secretary_rejected"}
           THEN req' = [req EXCEPT ![s] = Responded("cancel", "InvalidStage")]
           ELSE req' = [req EXCEPT ![s] =
                        [IdleReq EXCEPT !.pc = "cancel_got", !.kind = "cancel",
                                        !.actor = actor, !.id = id,
                                        !.existing = existingBooking,
                                        !.rows = Len(RowsOf(bookingHistory, id))]]

\* updateBookingStatus(bookingId, 'cancelled', ...) up to its await.
CancelUpdate(s, E) ==
    /\ req[s].pc = "cancel_got"
    /\ Room(E)
    /\ LET r == updateBookingStatus(bookings, bookingHistory, req[s].id,
                                    "cancelled", req[s].actor,
                                    "Booking cancelled by user")
       IN  /\ bookings' = r.bookings
           /\ bookingHistory' = r.history
    /\ req' = [req EXCEPT ![s].pc = "cancel_updated"]
    /\ UNCHANGED events
    /\ saveAllData(E.written)
    /\ UNCHANGED feedback

\* The route's addBookingHistory.
CancelHistory(s, E) ==
    /\ req[s].pc = "cancel_updated"
    /\ Room(E)
    /\ bookingHistory' =
            addBookingHistory(bookingHistory, req[s].id, "cancelled",
                              "Booking cancelled by user", req[s].actor)
    /\ req' = [req EXCEPT ![s].pc = "cancel_logged"]
    /\ UNCHANGED <<bookings, events>>
    /\ saveAllData(E.written)
    /\ UNCHANGED feedback

\* broadcastStatusUpdate and the response.
CancelBroadcast(s) ==
    /\ req[s].pc = "cancel_logged"
    /\ events' = broadcastStatusUpdate(events, req[s].id, "cancelled")
    /\ Respond(s, "OK")
    /\ UNCHANGED <<bookings, bookingHistory, onDisk, feedback>>

\* ------------------------------------------ PATCH /api/bookings/:id/status
\* The response of the status route, with the caller and the target status
\* of the request it answers.
StatusResponded(actor, status, code) ==
    [Responded("status", code) EXCEPT !.actor = actor, !.status = status]

\* The map without its gd_rejected entry.
allowedRolesLax(status) ==
    CASE status = "gd_approved" -> {"group_director"}
      [] status \in {"secretary_approved", "secretary_rejected"} -> {"secretary"}
      [] status = "it_setup_complete" -> {"it_team"}
      [] OTHER -> {}

\* allowedRoles[status]; empty where the map has no entry.
allowedRoles(status) ==
    CASE status \in {"gd_approved", "gd_rejected"} -> {"group_director"}
      [] status \in {"secretary_approved", "secretary_rejected"} -> {"secretary"}
      [] status = "it_setup_complete" -> {"it_team"}
      [] OTHER -> {}

\* allowedRoles[status] && !allowedRoles[status].includes(user.role)
InsufficientPermissions(status, role) ==
    allowedRoles(status) # {} /\ role \notin allowedRoles(status)

\* The role check, then updateBookingStatus up to its await; a throw of
\* updateBookingStatus is caught by the route and answered with 500.
StatusStart(s, actor, id, status, remarks, E) ==
    /\ FirstIdle(s)
    /\ IF InsufficientPermissions(status, Role(actor))
       THEN /\ req' = [req EXCEPT ![s] = StatusResponded(actor, status, "Forbidden")]
            /\ UNCHANGED <<store, onDisk, feedback>>
       ELSE IF findIndex(bookings, id) = 0
       THEN /\ req' = [req EXCEPT ![s] = StatusResponded(actor, status, "Failed")]
            /\ UNCHANGED <<store, onDisk, feedback>>
       ELSE LET u == updateBookingStatus(bookings, bookingHistory, id,
                                         status, actor, remarks)
            IN  /\ Room(E)
                /\ bookings' = u.bookings
                /\ bookingHistory' = u.history
                /\ req' = [req EXCEPT ![s] =
                            [IdleReq EXCEPT !.pc = "status_updated",
                                            !.kind = "status", !.actor = actor,
                                            !.id = id, !.status = status,
                                            !.remarks = remarks,
                                            !.rows = Len(RowsOf(bookingHistory, id))]]
                /\ UNCHANGED events
                /\ saveAllData(E.written)
                /\ UNCHANGED feedback

\* broadcastStatusUpdate and the response.
StatusBroadcast(s) ==
    /\ req[s].pc = "status_updated"
    /\ events' = broadcastStatusUpdate(events, req[s].id, req[s].status)
    /\ req' = [req EXCEPT ![s] = StatusResponded(req[s].actor, req[s].status, "OK")]
    /\ UNCHANGED <<bookings, bookingHistory, onDisk, feedback>>

\* ------------------------------------ POST /api/venues/check-availability
CheckAvailability(s, venueId, date, startTime, endTime, excludeBookingId) ==
    /\ FirstIdle(s)
    /\ req' = [req EXCEPT ![s] =
                [Responded("availability", "OK") EXCEPT
                    !.available = checkVenueAvailability(bookings, venueId, date,
                                      startTime, endTime, excludeBookingId)]]
    /\ UNCHANGED <<store, onDisk, feedback>>

\* ------------------------------------------------------ POST /api/feedback
\* PersistentStorage.createFeedback
createFeedback(fb, bookingId, userId, now) ==
    Append(fb, [bookingId |-> bookingId, userId |-> userId, createdAt |-> now])

\* The whole handler: insertFeedbackSchema.parse, which fails on a rating
\* that is not a number, and createFeedback.
FeedbackCreate(s, actor, bookingId, overallRating, now, E) ==
    /\ FirstIdle(s)
    /\ IF overallRating = Null
       THEN /\ req' = [req EXCEPT ![s] = Responded("feedback", "Failed")]
            /\ UNCHANGED <<store, onDisk, feedback>>
       ELSE /\ Len(feedback) < MaxFeedback
            /\ feedback' = createFeedback(feedback, bookingId, actor, now)
            /\ req' = [req EXCEPT ![s] = Responded("feedback", "OK")]
            /\ UNCHANGED store
            /\ saveAllData(E.written)

\* -------------------------------------------------------------------- Init
Init ==
    /\ bookings = <<>>
    /\ bookingHistory = <<>>
    /\ events = <<>>
    /\ req = [s \in Slots |-> IdleReq]
    /\ onDisk = [bookings |-> TRUE, bookingHistory |-> TRUE]
    /\ feedback = <<>>

\* A request arrives and its handler runs its first segment; status
\* requests carry remarks out of the set R; E is the environment of the
\* run.
Start(s, R, E) ==
    \/ \E actor \in Creators, data \in SlotInputs : CreateStart(s, actor, data)
    \/ \E actor \in Users, id \in IdInputs, data \in SlotInputs :
            EditStart(s, actor, id, data)
    \/ \E actor \in Users, id \in IdInputs : CancelStart(s, actor, id)
    \/ \E actor \in Users, id \in IdInputs, status \in StatusInputs,
          remarks \in R : StatusStart(s, actor, id, status, remarks, E)
    \/ \E data \in SlotInputs, ex \in {NoExclude} \cup IdInputs :
            CheckAvailability(s, data.venueId, data.eventDate, data.startTime,
                              data.endTime, ex)

\* A handler in flight runs its next segment in the environment E.
Step(s, E) ==
    \/ CreateInsert(s, E)
    \/ CreateHistory(s, E)
    \/ CreateBroadcast(s)
    \/ EditCheck(s)
    \/ EditUpdate(s, E)
    \/ EditHistory(s, E)
    \/ EditStatus(s, E)
    \/ EditBroadcast(s)
    \/ CancelUpdate(s, E)
    \/ CancelHistory(s, E)
    \/ CancelBroadcast(s)
    \/ StatusBroadcast(s)
    \/ Deliver(s)

\* No handler is in flight.
Quiescent == \A s \in Slots : req[s].pc = "idle"

\* Requests are served one after another: a handler runs to completion
\* before the next request is taken up.  Every write reaches the files.
Next ==
    \E s \in Slots :
        \/ Quiescent /\ Start(s, SeqRemarks, Served)
        \/ Step(s, Served)

Spec == Init /\ [][Next]_vars

\* The slots of the requests of the specifications below.
FewSlots ==
    { [venueId |-> "1", eventDate |-> D1, startTime |-> T10, endTime |-> T12],
      [venueId |-> "1", eventDate |-> D1, startTime |-> T12, endTime |-> T13] }

\* The targets of the status requests of the specifications below: those
\* with a stage of their own, and completed.
StageTargets ==
    {"gd_approved", "gd_rejected", "secretary_approved", "secretary_rejected",
     "it_setup_complete", "completed"}

\* A create, edit, cancel or status request arrives; status requests carry
\* remarks out of the set R; E is the environment of the run.
StartFew(s, R, E) ==
    \/ \E actor \in Creators, data \in FewSlots : CreateStart(s, actor, data)
    \/ \E actor \in Users, id \in IdInputs, data \in FewSlots :
            EditStart(s, actor, id, data)
    \/ \E actor \in Users, id \in IdInputs : CancelStart(s, actor, id)
    \/ \E actor \in Users, id \in IdInputs, status \in StageTargets,
          remarks \in R : StatusStart(s, actor, id, status, remarks, E)

\* Requests served one after another, with status requests that carry
\* remarks and that carry none.
NextRemarks ==
    \E s \in Slots :
        \/ Quiescent /\ StartFew(s, RemarksInputs, Served)
        \/ Step(s, Served)

SpecRemarks == Init /\ [][NextRemarks]_vars

\* The positions at which a handler calls broadcastStatusUpdate next.
BroadcastPoints ==
    {"create_logged", "edit_reset", "cancel_logged", "status_updated"}

\* The response of a handler past its broadcast.
AfterBroadcast(r, code) ==
    IF r.kind = "status"
    THEN StatusResponded(r.actor, r.status, code)
    ELSE Responded(r.kind, code)

\* A send whose failure is thrown into the handler: the catch of the route
\* answers with its failure status.
BroadcastSendThrows(s) ==
    /\ req[s].pc \in BroadcastPoints
    /\ req' = [req EXCEPT ![s] = AfterBroadcast(req[s], "Failed")]
    /\ UNCHANGED <<store, onDisk, feedback>>

\* broadcastStatusUpdate with a client whose socket is OPEN and on which
\* client.send fails: the message is not delivered, the socket raises its
\* 'error' event, whose listener logs it and drops the client, and the
\* handler goes on to its response.
BroadcastSendFails(s) ==
    /\ req[s].pc \in BroadcastPoints
    /\ req' = [req EXCEPT ![s] = AfterBroadcast(req[s], "OK")]
    /\ UNCHANGED <<store, onDisk, feedback>>

\* Requests served one after another, with sends that may fail.
NextSendFails ==
    \E s \in Slots :
        \/ Quiescent /\ StartFew(s, SeqRemarks, Served)
        \/ Step(s, Served)
        \/ BroadcastSendFails(s)

SpecSendFails == Init /\ [][NextSendFails]_vars

\* Requests served one after another, with file writes that may fail.
NextWriteFails ==
    \E s \in Slots :
        \/ Quiescent /\ StartFew(s, SeqRemarks, Faulty)
        \/ Step(s, Faulty)

SpecWriteFails == Init /\ [][NextWriteFails]_vars

\* A client asks whether a slot is free.
StartQuery(s) ==
    \E data \in FewSlots, ex \in {NoExclude} \cup IdInputs :
        CheckAvailability(s, data.venueId, data.eventDate, data.startTime,
                          data.endTime, ex)

\* Requests served one after another, availability queries among them,
\* followed over a longer history.
NextLong ==
    \E s \in Slots :
        \/ Quiescent /\ StartFew(s, SeqRemarks, Long)
        \/ Quiescent /\ StartQuery(s)
        \/ Step(s, Long)

SpecLong == Init /\ [][NextLong]_vars

\* Bodies of create and edit requests that carry a userId and a status of
\* their own besides the slot.
ForgedBodies ==
    {[userId |-> u, status |-> st, venueId |-> d.venueId,
      eventDate |-> d.eventDate, startTime |-> d.startTime,
      endTime |-> d.endTime] :
        u \in {Null, "1"}, st \in {Null, "completed"}, d \in FewSlots}

StartForged(s, R, E) ==
    \/ \E actor \in Creators, body \in ForgedBodies : CreateStart(s, actor, body)
    \/ \E actor \in Users, id \in IdInputs, body \in ForgedBodies :
            EditStart(s, actor, id, body)
    \/ \E actor \in Users, id \in IdInputs : CancelStart(s, actor, id)
    \/ \E actor \in Users, id \in IdInputs, status \in StageTargets,
          remarks \in R : StatusStart(s, actor, id, status, remarks, E)

\* Requests served one after another, with create and edit bodies that try
\* to set the owner and the status.
NextForged ==
    \E s \in Slots :
        \/ Quiescent /\ StartForged(s, SeqRemarks, Served)
        \/ Step(s, Served)

SpecForged == Init /\ [][NextForged]_vars

\* Requests arrive while the handlers of earlier ones are waiting on a
\* storage call: the segments of the handlers interleave.
\* The requests are the owner's creates, edits and cancels and the
\* director's decisions.
StartConcurrent(s, E) ==
    \/ \E actor \in Creators, body \in FewSlots : CreateStart(s, actor, body)
    \/ \E actor \in Creators, id \in IdInputs, body \in FewSlots :
            EditStart(s, actor, id, body)
    \/ \E actor \in Creators, id \in IdInputs : CancelStart(s, actor, id)
    \/ \E id \in IdInputs, status \in {"gd_approved", "gd_rejected"},
          remarks \in SeqRemarks : StatusStart(s, "1", id, status, remarks, E)

NextConcurrent ==
    \E s \in Slots :
        \/ StartConcurrent(s, Long)
        \/ Step(s, Long)

SpecConcurrent == Init /\ [][NextConcurrent]_vars

\* Create requests only, arriving while earlier ones are waiting.
NextCreateRace ==
    \E s \in Slots :
        \/ \E actor \in Creators, body \in FewSlots : CreateStart(s, actor, body)
        \/ CreateInsert(s, Served)
        \/ CreateHistory(s, Served)
        \/ CreateBroadcast(s)
        \/ Deliver(s)

SpecCreateRace == Init /\ [][NextCreateRace]_vars

\* A feedback request arrives.
StartFeedback(s, E) ==
    \E actor \in Creators, bookingId \in IdInputs, overallRating \in RatingInputs,
       now \in ClockInputs :
        FeedbackCreate(s, actor, bookingId, overallRating, now, E)

\* Requests served one after another, feedback requests among them.
NextFeedback ==
    \E s \in Slots :
        \/ Quiescent /\ StartFew(s, SeqRemarks, Served)
        \/ Quiescent /\ StartFeedback(s, Served)
        \/ Step(s, Served)

SpecFeedback == Init /\ [][NextFeedback]_vars

\* Requests served one after another, followed long enough for a booking to
\* be rejected, its slot to be booked again and the booking to be reopened.
NextReopen ==
    \E s \in Slots :
        \/ Quiescent /\ StartFew(s, SeqRemarks, Reopening)
        \/ Step(s, Reopening)

SpecReopen == Init /\ [][NextReopen]_vars

\* ------------------------------------------------------------- properties
\* The booking stored under an id (the id is known).
BookingOf(bs, id) == bs[findIndex(bs, id)]

\* The handler in slot s has just ended with the given response.
Ends(s, kind, code) ==
    /\ req[s].pc # "responded"
    /\ req'[s].pc = "responded"
    /\ req'[s].kind = kind
    /\ req'[s].code = code

\* The transition table of the specification.
TransitionTable(from) ==
    CASE from = "submitted" -> {"gd_approved", "gd_rejected"}
      [] from = "gd_approved" -> {"secretary_approved", "secretary_rejected"}
      [] from = "secretary_approved" -> {"it_setup_complete"}
      [] from = "it_setup_complete" -> {"completed"}
      [] OTHER -> {}

\* C1: a status request that passes the role check on a stored booking
\* either names a target the transition table permits from the current
\* status, or ends with InvalidTransition and leaves the bookings as they are.
C1_TransitionTable ==
    [][\A s \in Slots, actor \in Users, id \in IdInputs,
          status \in StatusInputs, remarks \in RemarksInputs :
            ( /\ StatusStart(s, actor, id, status, remarks, Served)
              /\ findIndex(bookings, id) # 0
              /\ ~InsufficientPermissions(status, Role(actor))
              /\ status \notin TransitionTable(BookingOf(bookings, id).status) )
            => ( /\ req'[s].pc = "responded"
                 /\ req'[s].code = "InvalidTransition"
                 /\ bookings' = bookings )]_vars

\* Some row of h at a position below n has the status, written by a user
\* of the role.
RowBefore(h, n, status, role) ==
    \E i \in 1..(n - 1) : h[i].status = status /\ Role(h[i].changedBy) = role

\* C2: the history of a booking whose status is it_setup_complete or
\* completed holds a gd_approved row of a director and, after it, a
\* secretary_approved row of a secretary.
C2_SequentialApprovals ==
    \A b \in 1..Len(bookings) :
        bookings[b].status \in {"it_setup_complete", "completed"} =>
            LET h == RowsOf(bookingHistory, bookings[b].id)
            IN  \E j \in 1..Len(h) :
                    /\ h[j].status = "secretary_approved"
                    /\ Role(h[j].changedBy) = "secretary"
                    /\ RowBefore(h, j, "gd_approved", "group_director")

\* The role a target status is reserved for; none for the other targets.
GatedFor(status) ==
    CASE status \in {"gd_approved", "gd_rejected"} -> "group_director"
      [] status \in {"secretary_approved", "secretary_rejected"} -> "secretary"
      [] status = "it_setup_complete" -> "it_team"
      [] OTHER -> "none"

\* C3: a status request whose target is reserved for a role the actor does
\* not have ends with Forbidden, for every booking id and every current
\* status, and changes no booking, no history row and emits no event.
C3_RoleGating ==
    [][\A s \in Slots :
            ( /\ req[s].pc = "idle"
              /\ req'[s].kind = "status"
              /\ GatedFor(req'[s].status) # "none"
              /\ GatedFor(req'[s].status) # Role(req'[s].actor) )
            => ( /\ req'[s].pc = "responded"
                 /\ req'[s].code = "Forbidden"
                 /\ UNCHANGED store )]_vars

\* A status request was refused for the role while a booking is stored.
C3_Witness ==
    \E s \in Slots :
        /\ req[s].pc = "responded"
        /\ req[s].kind = "status"
        /\ req[s].code = "Forbidden"
        /\ req[s].status = "gd_approved"
        /\ Role(req[s].actor) = "secretary"
        /\ Len(bookings) > 0

\* C4: whenever the status of a booking becomes cancelled, the step belongs
\* to a request of the booking's owner and the status before the step is
\* one of submitted, gd_approved, secretary_approved, gd_rejected,
\* secretary_rejected.
C4_CancelOnlyByOwner ==
    [][\A b \in 1..Len(bookings) :
            (bookings'[b].status = "cancelled" /\ bookings[b].status # "cancelled")
            => ( /\ \E s \in Slots : /\ req'[s].id = bookings[b].id
                                     /\ req'[s].actor = bookings[b].userId
                 /\ bookings[b].status \in
                        {"submitted", "gd_approved", "secretary_approved",
                         "gd_rejected", "secretary_rejected"} )]_vars

\* C5: in every state the history of every booking begins with a submitted
\* row and the status of its last row is the status of the booking.
C5_HistoryMatchesStatus ==
    \A b \in 1..Len(bookings) :
        LET h == RowsOf(bookingHistory, bookings[b].id)
        IN  /\ h # <<>>
            /\ h[1].status = "submitted"
            /\ h[Len(h)].status = bookings[b].status

\* The statuses that block a venue, by the specification.
ActiveStatuses ==
    {"submitted", "gd_approved", "secretary_approved", "it_setup_complete",
     "completed"}

\* C6: checkVenueAvailability is false exactly when a stored booking has
\* the venue, the calendar date, an active status and a time range that
\* overlaps the asked one under the half-open test.
C6_AvailabilityIff ==
    \A v \in VenueInputs, d \in DateInputs, st \in TimeInputs, en \in TimeInputs :
        checkVenueAvailability(bookings, v, d, st, en, NoExclude)
        = ~\E b \in 1..Len(bookings) :
                /\ bookings[b].venueId = v
                /\ bookings[b].eventDate.day = d.day
                /\ bookings[b].status \in ActiveStatuses
                /\ ~(StrLeq(en, bookings[b].startTime)
                        \/ StrLeq(bookings[b].endTime, st))

\* C7: when an edit ends with success the booking is submitted and its
\* history has exactly one row more than when the request arrived.
C7_EditAppendsOneRow ==
    [][\A s \in Slots :
            Ends(s, "edit", "OK")
            => ( /\ BookingOf(bookings', req[s].id).status = "submitted"
                 /\ Len(RowsOf(bookingHistory', req[s].id)) = req[s].rows + 1 )]_vars

\* C8: no segment of a create or edit handler that is rejected for a
\* conflict writes: the segments before the availability verdict and the
\* rejection itself leave bookings, history and events as they are.
C8_ConflictNoMutation ==
    [][\A s \in Slots :
            ( /\ req'[s] # req[s]
              /\ req'[s].kind \in {"create", "edit"}
              /\ \/ req'[s].pc \in {"create_checked", "edit_got", "edit_checked"}
                 \/ req'[s].pc = "responded" /\ req'[s].code = "Conflict" )
            => UNCHANGED store]_vars

\* An edit onto the slot of another active booking was rejected.
C8_Witness ==
    \E s \in Slots :
        /\ req[s].pc = "responded"
        /\ req[s].kind = "edit"
        /\ req[s].code = "Conflict"

C10_OneRowPerChange ==
    [][\A s \in Slots :
            (\E kind \in {"create", "status", "cancel"} : Ends(s, kind, "OK"))
            => Len(RowsOf(bookingHistory', req[s].id)) = req[s].rows + 1]_vars

\* C11: every status request that reaches updateBookingStatus on a stored
\* booking appends one history row with the target status, the caller as
\* actor and the remarks of the request or, when it carries none, the text
\* 'Status updated to <status>'; so does a repetition of the same request.
C11_NotIdempotent ==
    [][\A s \in Slots :
            (req[s].pc = "idle" /\ req'[s].pc = "status_updated")
            => bookingHistory' =
                 Append(bookingHistory,
                        [bookingId |-> req'[s].id,
                         status |-> req'[s].status,
                         remarks |-> IF req'[s].remarks = Null
                                     THEN DefaultRemarks(req'[s].status)
                                     ELSE req'[s].remarks,
                         changedBy |-> req'[s].actor])]_vars

\* The same status request without remarks has been served twice in a row.
C11_Witness ==
    \E s \in Slots :
        LET n == Len(bookingHistory)
        IN  /\ req[s].pc = "status_updated"
            /\ req[s].remarks = Null
            /\ n >= 2
            /\ bookingHistory[n] = bookingHistory[n - 1]
            /\ bookingHistory[n].remarks = "Status updated to gd_approved"

\* The stage a target status belongs to; none for the other targets.
StageOf(status) ==
    CASE status \in {"gd_approved", "gd_rejected"} -> "gd"
      [] status \in {"secretary_approved", "secretary_rejected"} -> "secretary"
      [] status = "it_setup_complete" -> "it"
      [] OTHER -> "none"

\* The target status of the updateBookingStatus call a handler has made.
TargetOf(r) ==
    CASE r.pc = "status_updated" -> r.status
      [] r.pc = "edit_reset" -> "submitted"
      [] r.pc = "cancel_updated" -> "cancelled"
      [] OTHER -> Null

\* C13: a call of updateBookingStatus stamps the date and stores the remarks
\* of the stage of its target and leaves the fields of the other stages as
\* they are; a target submitted, cancelled or completed leaves all six.
C13_StageFieldFrame ==
    [][\A s \in Slots :
            ( /\ req'[s].pc \in {"status_updated", "edit_reset", "cancel_updated"}
              /\ req[s].pc # req'[s].pc )
            => LET old == BookingOf(bookings, req'[s].id)
                   new == BookingOf(bookings', req'[s].id)
                   stage == StageOf(TargetOf(req'[s]))
               IN  /\ IF stage = "gd"
                      THEN /\ new.gdApprovalDate = Now
                           /\ new.gdRemarks = req'[s].remarks
                      ELSE /\ new.gdApprovalDate = old.gdApprovalDate
                           /\ new.gdRemarks = old.gdRemarks
                   /\ IF stage = "secretary"
                      THEN /\ new.secretaryApprovalDate = Now
                           /\ new.secretaryRemarks = req'[s].remarks
                      ELSE /\ new.secretaryApprovalDate = old.secretaryApprovalDate
                           /\ new.secretaryRemarks = old.secretaryRemarks
                   /\ IF stage = "it"
                      THEN /\ new.itSetupDate = Now
                           /\ new.itRemarks = req'[s].remarks
                      ELSE /\ new.itSetupDate = old.itSetupDate
                           /\ new.itRemarks = old.itRemarks]_vars

\* The secretary has approved a booking the director approved before: the
\* director's fields are kept and the IT fields are still empty.
C13_Witness ==
    \E s \in Slots :
        /\ req[s].pc = "status_updated"
        /\ req[s].status = "secretary_approved"
        /\ LET b == BookingOf(bookings, req[s].id)
           IN  /\ b.gdApprovalDate = Now
               /\ b.gdRemarks = "ok"
               /\ b.secretaryApprovalDate = Now
               /\ b.secretaryRemarks = Null
               /\ b.itSetupDate = Null

\* C14: a stage field of a booking that holds a value holds a value after
\* every step.
C14_StageFieldsPermanent ==
    [][\A b \in 1..Len(bookings) :
            /\ bookings[b].gdApprovalDate # Null => bookings'[b].gdApprovalDate # Null
            /\ bookings[b].gdRemarks # Null => bookings'[b].gdRemarks # Null
            /\ bookings[b].secretaryApprovalDate # Null
                    => bookings'[b].secretaryApprovalDate # Null
            /\ bookings[b].secretaryRemarks # Null
                    => bookings'[b].secretaryRemarks # Null
            /\ bookings[b].itSetupDate # Null => bookings'[b].itSetupDate # Null
            /\ bookings[b].itRemarks # Null => bookings'[b].itRemarks # Null]_vars

\* C12: a booking whose status is cancelled is cancelled after every step.
C12_CancelledTerminal ==
    [][\A b \in 1..Len(bookings) :
            bookings[b].status = "cancelled"
            => bookings'[b].status = "cancelled"]_vars

\* The kinds of request that commit a status change.
ChangeKinds == {"create", "edit", "cancel", "status"}

\* The status a successful request of the handler r leaves on its booking.
CommittedStatus(r) ==
    CASE r.kind = "create" -> "submitted"
      [] r.kind = "edit" -> "submitted"
      [] r.kind = "cancel" -> "cancelled"
      [] OTHER -> r.status

\* C15: a create, edit, cancel or status request that ends with success
\* emits, with its last step, one event that carries the id of its booking
\* and the status it has stored on it; no other step emits an event, so a
\* request that fails emits none.
C15_OneEventPerChange ==
    [][/\ \A s \in Slots :
            (\E kind \in ChangeKinds : Ends(s, kind, "OK"))
            => /\ events' = Append(events, [bookingId |-> req[s].id,
                                            status |-> CommittedStatus(req[s])])
               /\ BookingOf(bookings, req[s].id).status = CommittedStatus(req[s])
               /\ UNCHANGED <<bookings, bookingHistory>>
       /\ events' # events
            => \E s \in Slots, kind \in ChangeKinds : Ends(s, kind, "OK")]_vars

\* A cancellation has just been answered and its event is the last one.
C15_Witness ==
    \E s \in Slots :
        /\ req[s].pc = "responded"
        /\ req[s].kind = "cancel"
        /\ req[s].code = "OK"
        /\ Len(events) = 2
        /\ events[1].status = "submitted"
        /\ events[2].status = "cancelled"
        /\ events[2].bookingId = events[1].bookingId

\* C18: a status request that passes the role check and names an id no
\* booking has ends with NotFound and leaves bookings, history and events
\* as they are.
C18_UnknownIdNotFound ==
    [][\A s \in Slots, actor \in Users, id \in IdInputs,
          status \in StatusInputs, remarks \in RemarksInputs :
            ( /\ StatusStart(s, actor, id, status, remarks, Served)
              /\ findIndex(bookings, id) = 0
              /\ GatedFor(status) \in {"none", Role(actor)} )
            => ( /\ req'[s].pc = "responded"
                 /\ req'[s].code = "NotFound"
                 /\ UNCHANGED store )]_vars

\* C19: the status of every booking and of every history row is one of
\* the eight values of BookingStatus.
C19_EnumStatuses ==
    /\ \A b \in 1..Len(bookings) : bookings[b].status \in BookingStatus
    /\ \A i \in 1..Len(bookingHistory) :
            bookingHistory[i].status \in BookingStatus

\* Some row of h has one of the statuses.
HasRow(h, statuses) == \E i \in 1..Len(h) : h[i].status \in statuses

\* C20: every booking getProcessedBookingsByRole returns for the director
\* has a gd_approved or gd_rejected row; for the secretary a gd_approved
\* row and a secretary_approved or secretary_rejected row; for the IT team
\* a gd_approved row and a secretary_approved row.
C20_ProcessedByRole ==
    /\ \A id \in getProcessedBookingsByRole(bookings, "group_director") :
            HasRow(RowsOf(bookingHistory, id), {"gd_approved", "gd_rejected"})
    /\ \A id \in getProcessedBookingsByRole(bookings, "secretary") :
            /\ HasRow(RowsOf(bookingHistory, id), {"gd_approved"})
            /\ HasRow(RowsOf(bookingHistory, id),
                      {"secretary_approved", "secretary_rejected"})
    /\ \A id \in getProcessedBookingsByRole(bookings, "it_team") :
            /\ HasRow(RowsOf(bookingHistory, id), {"gd_approved"})
            /\ HasRow(RowsOf(bookingHistory, id), {"secretary_approved"})

C17_WriteFailureNoPartialState ==
    [][\A s \in Slots :
            ( /\ req'[s] # req[s]
              /\ \/ onDisk.bookings /\ ~onDisk'.bookings
                 \/ onDisk.bookingHistory /\ ~onDisk'.bookingHistory )
            => /\ req'[s].pc = "responded"
               /\ req'[s].code = "Failed"
               /\ UNCHANGED <<bookings, bookingHistory>>]_vars

\* C21: every step keeps the rows of the history as they are and in their
\* places, adding rows at the end only, and keeps every booking in the store
\* under its id.
C21_AppendOnly ==
    [][/\ Len(bookingHistory') >= Len(bookingHistory)
       /\ SubSeq(bookingHistory', 1, Len(bookingHistory)) = bookingHistory
       /\ Len(bookings') >= Len(bookings)
       /\ \A b \in 1..Len(bookings) : bookings'[b].id = bookings[b].id]_vars

\* A booking was created and cancelled: it is still stored and its four
\* rows are all there, the first ones as they were written.
C21_Witness ==
    /\ Len(bookings) = 1
    /\ bookings[1].status = "cancelled"
    /\ Len(bookingHistory) = 4
    /\ bookingHistory[1].status = "submitted"
    /\ bookingHistory[2].status = "submitted"
    /\ bookingHistory[4].status = "cancelled"

\* The rows of a sequence come in ascending order of createdAt.
Ascending(rows) ==
    \A i, j \in 1..Len(rows) : i < j => rows[i].createdAt < rows[j].createdAt

\* C22: in both storage implementations getBookingHistory returns the rows
\* of the booking, all of them and no others, in ascending order of their
\* creation.
C22_HistoryAscending ==
    \A id \in IdInputs :
        /\ getBookingHistory(bookingHistory, id)
                = RowsOf(WithCreatedAt(bookingHistory), id)
        /\ Ascending(getBookingHistory(bookingHistory, id))
        /\ Len(DatabaseStorage_getBookingHistory(bookingHistory, id))
                = Len(RowsOf(bookingHistory, id))
        /\ Ascending(DatabaseStorage_getBookingHistory(bookingHistory, id))

\* The bookings without the one of the id.
RECURSIVE Without(_, _)
Without(bs, id) ==
    IF bs = <<>> THEN <<>>
    ELSE IF Head(bs).id = id THEN Without(Tail(bs), id)
         ELSE <<Head(bs)>> \o Without(Tail(bs), id)

\* C23: checkVenueAvailability with excludeBookingId = b gives, for every
\* slot and every booking id b, the result of the scan with no exclusion
\* over the stored bookings without b.
C23_ExcludeExactlyOne ==
    \A data \in SlotInputs, id \in IdInputs :
        checkVenueAvailability(bookings, data.venueId, data.eventDate,
                               data.startTime, data.endTime, id)
        = checkVenueAvailability(Without(bookings, id), data.venueId,
                                 data.eventDate, data.startTime, data.endTime,
                                 NoExclude)

\* The owner's edit of an active booking onto a slot that overlaps its own
\* current slot and no other booking's has been found available.
C23_Witness ==
    \E s \in Slots :
        /\ req[s].pc = "edit_checked"
        /\ req[s].available
        /\ LET b == BookingOf(bookings, req[s].id)
           IN  /\ b.status = "submitted"
               /\ b.venueId = req[s].data.venueId
               /\ b.eventDate.day = req[s].data.eventDate.day
               /\ StrLess(b.startTime, req[s].data.endTime)
               /\ StrLess(req[s].data.startTime, b.endTime)

\* C30: DatabaseStorage.checkVenueAvailability and
\* PersistentStorage.checkVenueAvailability return the same boolean for the
\* stored bookings and every venue, date, start, end and excludeBookingId.
C30_SameAvailability ==
    \A v \in VenueInputs, d \in DateInputs, st \in TimeInputs, en \in TimeInputs,
       ex \in {NoExclude} \cup IdInputs :
        DatabaseStorage_checkVenueAvailability(bookings, v, d, st, en, ex)
        = checkVenueAvailability(bookings, v, d, st, en, ex)

\* Two bookings hold the same venue on the same calendar date over ranges
\* that overlap (ranges that only touch do not).
Overlapping(a, b) ==
    /\ a.venueId = b.venueId
    /\ a.eventDate.day = b.eventDate.day
    /\ StrLess(a.startTime, b.endTime)
    /\ StrLess(b.startTime, a.endTime)

\* C27: with requests served one after another, no two distinct active
\* bookings of the same venue and calendar date have overlapping time
\* ranges at any moment between two requests.
C27_NoActiveOverlap ==
    Quiescent =>
        \A i, j \in 1..Len(bookings) :
            (/\ i < j
             /\ bookings[i].status \in ActiveStatuses
             /\ bookings[j].status \in ActiveStatuses)
                => ~Overlapping(bookings[i], bookings[j])

\* The bookings stored before a step that the step's request is not about:
\* all but the booking of the id of the handler in the slot that moved.
OtherBookings ==
    {i \in 1..Len(bookings) :
        \A s \in Slots :
            req'[s] # req[s] => bookings[i].id \notin {req[s].id, req'[s].id}}

\* C28: a step of a request about one booking leaves every other stored
\* booking as it was, with its status, stage fields, owner and id, and leaves
\* the history rows of every other booking as they were; an availability
\* query changes neither the bookings nor the history nor the files.
C28_OtherBookingsUntouched ==
    [][/\ \A i \in OtherBookings :
            /\ i <= Len(bookings')
            /\ bookings'[i] = bookings[i]
            /\ RowsOf(bookingHistory', bookings[i].id)
                    = RowsOf(bookingHistory, bookings[i].id)
       /\ (\E s \in Slots : req'[s] # req[s] /\ req'[s].kind = "availability")
            => /\ bookings' = bookings
               /\ bookingHistory' = bookingHistory
               /\ onDisk' = onDisk]_vars

\* The director's status request for the first booking has been committed
\* while a second booking is stored.
C28_Witness ==
    /\ Len(bookings) = 2
    /\ bookings[2].status = "submitted"
    /\ Len(RowsOf(bookingHistory, 2)) = 2
    /\ \E s \in Slots :
            /\ req[s].pc = "status_updated"
            /\ req[s].id = 1
            /\ req[s].status = "gd_approved"

\* A query has been answered while a booking is stored.
C28_QueryWitness ==
    /\ Len(bookings) >= 1
    /\ \E s \in Slots : req[s].pc = "responded" /\ req[s].kind = "availability"

\* C29: a booking is created with status submitted and the authenticated
\* caller as its owner whatever userId or status the body carries; the
\* owner of a stored booking never changes; and an edit is written only for
\* the owner, whose id it stores again.
C29_OwnerAndInitialStatus ==
    [][/\ \A i \in 1..Len(bookings) :
            /\ i <= Len(bookings')
            /\ bookings'[i].userId = bookings[i].userId
       /\ \A s \in Slots :
            /\ (req[s].pc = "create_checked" /\ req'[s].pc = "create_created")
                => /\ Len(bookings') = Len(bookings) + 1
                   /\ bookings'[Len(bookings')].userId = req[s].actor
                   /\ bookings'[Len(bookings')].status = "submitted"
            /\ (req[s].pc = "edit_checked" /\ req'[s].pc = "edit_updated")
                => /\ BookingOf(bookings, req[s].id).userId = req[s].actor
                   /\ BookingOf(bookings', req[s].id).userId = req[s].actor
       /\ Len(bookings') > Len(bookings)
            => \E s \in Slots : /\ req[s].pc = "create_checked"
                                /\ req'[s].pc = "create_created"]_vars

\* User 2 has created a booking with a body that names user 1 as the owner
\* and completed as the status.
C29_Witness ==
    \E s \in Slots :
        /\ req[s].pc = "create_created"
        /\ req[s].actor = "2"
        /\ req[s].body.userId = "1"
        /\ req[s].body.status = "completed"
        /\ BookingOf(bookings, req[s].id).userId = "2"
        /\ BookingOf(bookings, req[s].id).status = "submitted"

\* The owner has edited a booking with a body that names another owner.
C29_EditWitness ==
    \E s \in Slots :
        /\ req[s].pc = "edit_updated"
        /\ req[s].body.userId = "1"
        /\ BookingOf(bookings, req[s].id).userId = "2"

\* The statuses that record an approval.
ApprovedStatuses == {"gd_approved", "secretary_approved"}

\* The status of the last history row of a booking is the booking's status.
LastRowAgrees(bs, h, i) ==
    LET rows == RowsOf(h, bs[i].id)
    IN  rows # <<>> /\ rows[Len(rows)].status = bs[i].status

\* C25: with cancel, edit and status requests on one booking interleaving
\* at their awaits, whenever all requests have completed the last history
\* row of every booking carries the booking's status, and an edit or a
\* cancel never replaces an approved status that was written after the
\* handler read the booking.
C25_ConsistentUnderInterleaving ==
    [][/\ Quiescent' =>
            \A i \in 1..Len(bookings') :
                LastRowAgrees(bookings', bookingHistory', i)
       /\ \A s \in Slots, i \in 1..Len(bookings) :
            (/\ req'[s] # req[s]
             /\ req[s].kind \in {"edit", "cancel"}
             /\ bookings[i].id = req[s].id
             /\ bookings[i].status \in ApprovedStatuses
             /\ bookings'[i].status # bookings[i].status)
                => req[s].existing.status = bookings[i].status]_vars

\* C26: the create handler does not look at the slot again between its
\* availability check and its insert: a handler whose check found the slot
\* free stores its booking as an active one when it resumes, whatever has
\* been stored since the check, so two requests for overlapping ranges that
\* both check before either inserts both store their booking.
C26_CheckThenInsertNotAtomic ==
    [][\A s \in Slots :
        (/\ req[s].pc = "create_checked"
         /\ req[s].available
         /\ req'[s] # req[s])
            => /\ req'[s].pc = "create_created"
               /\ Len(bookings') = Len(bookings) + 1
               /\ LET b == bookings'[Len(bookings')]
                  IN  /\ b.id = req'[s].id
                      /\ b.status = "submitted"
                      /\ b.venueId = req[s].data.venueId
                      /\ b.eventDate = req[s].data.eventDate
                      /\ b.startTime = req[s].data.startTime
                      /\ b.endTime = req[s].data.endTime]_vars

\* Two create requests for the same range have both been answered with
\* success, and their two bookings are stored, active and overlapping.
C26_Witness ==
    /\ Len(bookings) = 2
    /\ Overlapping(bookings[1], bookings[2])
    /\ bookings[1].status \in ActiveStatuses
    /\ bookings[2].status \in ActiveStatuses
    /\ \A s \in Slots :
            req[s].pc = "responded" /\ req[s].kind = "create" /\ req[s].code = "OK"

\* Instant a comes before instant b.
Before(a, b) == a.day < b.day \/ (a.day = b.day /\ a.tod < b.tod)

\* C24: a feedback record is stored only for a booking that is completed
\* and whose event date lies before the moment of the request; a feedback
\* request for any other booking stores nothing.
C24_FeedbackOnlyCompleted ==
    [][feedback' # feedback =>
        LET f == feedback'[Len(feedback')]
        IN  \E i \in 1..Len(bookings) :
                /\ bookings[i].id = f.bookingId
                /\ bookings[i].status = "completed"
                /\ Before(bookings[i].eventDate, f.createdAt)]_vars

====
